---------------------------- MODULE Spec2Model ----------------------------
(***************************************************************************)
(* A model of deepsparse's YOLOPipeline (src/deepsparse/yolo/pipelines.py) *)
(* and of TransformersPipeline.tokens_to_engine_input                      *)
(* (src/deepsparse/transformers/pipelines/pipeline.py).                    *)
(*                                                                         *)
(* Conventions                                                             *)
(*  - thresholds and confidences are percentages (0.25 is 25, 0.45 is 45); *)
(*  - a Python dict is a function from its keys to its values;             *)
(*  - a tensor of detections is a sequence (one entry per image of the     *)
(*    batch) of sequences of detections [box, conf, cls];                  *)
(*  - a raised exception is a result [status |-> "error", ...]: the call   *)
(*    returns nothing.                                                     *)
(***************************************************************************)
EXTENDS Integers, Sequences, FiniteSets, TLC

VARIABLES
    pc,                 \* "new": before __init__, "ready": constructed, "failed": __init__ raised
    onnx_model,         \* metadata of the ONNX file: output ranks, input elem type, input dims
    class_names_arg,    \* the class_names argument given to __init__
    callerDict,         \* the contents of the dict object the caller holds
    class_names_ref,    \* what self._class_names refers to: "none", "caller" (the caller's dict) or "own"
    ownDict,            \* the contents of the dict the pipeline built itself (class_names_ref = "own")
    resolved,           \* history: the mapping self._class_names held when __init__ returned
    has_postprocessing, \* self.has_postprocessing
    flagAtInit,         \* history: the value model_has_postprocessing returned in __init__
    is_quantized,       \* self.is_quantized
    input_shape,        \* self.input_shape
    postprocessor,      \* self.postprocessor: "None" or "YoloPostprocessor"
    float_cast,         \* what this build's float-to-int8 conversion does out of range
    inputs,             \* the YOLOInput object the caller holds (built: whether it exists yet)
    engine,             \* what the engine returned for the request, and the call's kwargs
    last,               \* the most recent call and its result
    onnx_input_names,   \* TransformersPipeline.onnx_input_names
    dets,               \* suppress on its own: the current detection list
    nmsIn,              \* suppress on its own: the list given to the first suppress
    nmsOnce,            \* suppress on its own: the result of the first suppress
    thr,                \* suppress on its own: the thresholds [iou, conf]
    passes              \* suppress on its own: number of suppress applications so far

vars == <<pc, onnx_model, float_cast, class_names_arg, callerDict, class_names_ref, ownDict,
          resolved, has_postprocessing, flagAtInit, is_quantized, input_shape,
          postprocessor, inputs, engine, last, onnx_input_names,
          dets, nmsIn, nmsOnce, thr, passes>>

yoloFields == <<class_names_ref, ownDict, resolved, has_postprocessing, flagAtInit,
                is_quantized, input_shape, postprocessor>>
nmsVars == <<dets, nmsIn, nmsOnce, thr, passes>>

---------------------------------------------------------------------------
(* Bounds of the model *)

MaxOutputs == 2     \* declared output tensors of the model
MaxDets == 2        \* detections per image in an engine output
MaxImages == 2      \* images in one YOLOInput
MaxDiv == 2         \* times one tensor is divided by 255 in place
MaxNmsDets == 3     \* detections in a list given to suppress on its own
MaxPasses == 2      \* applications of suppress to one list
MaxNames == 2       \* declared ONNX input names

(* Program constants *)

DefaultIouThres == 25
DefaultConfThres == 45
BatchSize == 1

None == "None"
NoDict == [k \in {} |-> ""]

---------------------------------------------------------------------------
(* Helpers *)

SeqsUpTo(S, n) == UNION {[1..k -> S] : k \in 0..n}
NonEmptySeqsUpTo(S, n) == UNION {[1..k -> S] : k \in 1..n}

RECURSIVE Concat(_)
Concat(ss) == IF ss = <<>> THEN <<>> ELSE Head(ss) \o Concat(Tail(ss))

\* Python's str() of a small non-negative int
DigitStr == <<"0", "1", "2", "3", "4", "5", "6", "7", "8", "9">>
Str(n) == DigitStr[n + 1]

\* {str(index): name for index, name in enumerate(names)}
EnumerateDict(names) ==
    [k \in {Str(i - 1) : i \in 1..Len(names)} |->
        names[CHOOSE i \in 1..Len(names) : Str(i - 1) = k]]

\* deepsparse.yolo.utils.COCO_CLASSES, abridged to its first three names
COCO_CLASSES == <<"person", "bicycle", "car">>

---------------------------------------------------------------------------
(* YOLOPipeline.__init__ and the model inspections it calls *)

\* the number of dimensions of each declared output
outputs_num_dims(model) == model.outRanks

\* a variant comparing with >= where the code compares with >
model_has_postprocessing_ge(model) ==
    LET nd == outputs_num_dims(model) IN
    IF Len(nd) = 1 THEN TRUE
    ELSE \A i \in 2..Len(nd) : nd[i] >= nd[1]

model_has_postprocessing(model) ==
    LET nd == outputs_num_dims(model) IN
    IF Len(nd) = 1 THEN TRUE
    ELSE \A i \in 2..Len(nd) : nd[i] > nd[1]

model_is_quantized(model) == model.elemType = "UINT8"

infer_image_shape(model) == <<model.inDims[3], model.inDims[4]>>

\* lines 74-80: a str argument is replaced by what it names, or raises
\* result: [ok, kind, err]
EndsWithJson(value) == value = "labels.json"

ResolveStr(arg) ==
    IF arg.kind # "str" THEN [ok |-> TRUE, kind |-> arg.kind, err |-> None]
    ELSE IF EndsWithJson(arg.value)
         THEN IF arg.file = "missing"
              THEN [ok |-> FALSE, kind |-> None, err |-> "FileNotFoundError"]
              ELSE [ok |-> TRUE, kind |-> arg.file, err |-> None]
    ELSE IF arg.value = "coco"
         THEN [ok |-> TRUE, kind |-> "coco", err |-> None]
    ELSE [ok |-> FALSE, kind |-> None, err |-> "ValueError"]

\* the list the (resolved) argument holds, when it is a list
ArgList(arg, kind) == IF kind = "coco" THEN COCO_CLASSES ELSE arg.names

\* lines 82-92: what self._class_names becomes
\* result: [ok, ref, own, err]
ResolveClassNames(arg) ==
    LET r == ResolveStr(arg) IN
    IF ~r.ok THEN [ok |-> FALSE, ref |-> "none", own |-> NoDict, err |-> r.err]
    ELSE IF r.kind = "dict" /\ arg.kind = "dict"
         THEN [ok |-> TRUE, ref |-> "caller", own |-> NoDict, err |-> None]
    ELSE IF r.kind = "dict"
         THEN [ok |-> TRUE, ref |-> "own", own |-> arg.content, err |-> None]
    ELSE IF r.kind \in {"list", "coco"}
         THEN [ok |-> TRUE, ref |-> "own", own |-> EnumerateDict(ArgList(arg, r.kind)),
               err |-> None]
    ELSE [ok |-> FALSE, ref |-> "none", own |-> NoDict, err |-> "ValueError"]

\* the class_names property: the dict self._class_names refers to
class_names == IF class_names_ref = "caller" THEN callerDict ELSE ownDict

MakePostprocessor(flag) == IF flag THEN None ELSE "YoloPostprocessor"

NoCall == [op |-> "none"]

Construct ==
    /\ pc = "new"
    /\ LET r == ResolveClassNames(class_names_arg)
           flag == model_has_postprocessing(onnx_model)
       IN IF ~r.ok
          THEN /\ pc' = "failed"
               /\ last' = [op |-> "__init__", status |-> "error", err |-> r.err]
               /\ UNCHANGED yoloFields
          ELSE /\ pc' = "ready"
               /\ class_names_ref' = r.ref
               /\ ownDict' = r.own
               /\ resolved' = (IF r.ref = "caller" THEN callerDict ELSE r.own)
               /\ has_postprocessing' = flag
               /\ flagAtInit' = flag
               /\ input_shape' = infer_image_shape(onnx_model)
               /\ is_quantized' = model_is_quantized(onnx_model)
               /\ postprocessor' = MakePostprocessor(flag)
               /\ last' = [op |-> "__init__", status |-> "ok", err |-> None]
    /\ UNCHANGED <<onnx_model, float_cast, class_names_arg, callerDict, inputs, engine,
                   onnx_input_names, nmsVars>>

---------------------------------------------------------------------------
(* The caller keeps the dict it passed as class_names and may write to it *)

CallerLabels == {"cat"}

CallerMutatesMapping ==
    /\ class_names_arg.kind = "dict"
    /\ \E k \in DOMAIN callerDict, l \in CallerLabels :
          /\ callerDict[k] # l
          /\ callerDict' = [callerDict EXCEPT ![k] = l]
    /\ UNCHANGED <<pc, onnx_model, float_cast, class_names_arg, yoloFields, inputs, engine, last,
                   onnx_input_names, nmsVars>>

---------------------------------------------------------------------------
(* Non-max suppression: deepsparse.yolo.utils.postprocess_nms *)

Max(a, b) == IF a > b THEN a ELSE b
Min(a, b) == IF a < b THEN a ELSE b

Area(b) == Max(0, b[3] - b[1]) * Max(0, b[4] - b[2])

Intersection(a, b) ==
    Max(0, Min(a[3], b[3]) - Max(a[1], b[1])) * Max(0, Min(a[4], b[4]) - Max(a[2], b[2]))

Union(a, b) == Area(a) + Area(b) - Intersection(a, b)

\* IoU(a, b) > t/100; a zero-area box has IoU 0 against anything
IoUExceeds(a, b, t) ==
    /\ Area(a) > 0
    /\ Area(b) > 0
    /\ Intersection(a, b) * 100 > t * Union(a, b)

\* step 1: discard every detection with confidence < confidence_threshold
ConfFilter(ds, tconf) == SelectSeq(ds, LAMBDA d : ~(d.conf < tconf))

\* a variant that puts a detection before those of equal confidence: an
\* unstable sort
RECURSIVE InsertByConfUnstable(_, _)
InsertByConfUnstable(d, sorted) ==
    IF sorted = <<>> THEN <<d>>
    ELSE IF Head(sorted).conf > d.conf
         THEN <<Head(sorted)>> \o InsertByConfUnstable(d, Tail(sorted))
         ELSE <<d>> \o sorted

\* step 2: sort by confidence, descending, stable
RECURSIVE InsertByConf(_, _)
InsertByConf(d, sorted) ==
    IF sorted = <<>> THEN <<d>>
    ELSE IF Head(sorted).conf >= d.conf
         THEN <<Head(sorted)>> \o InsertByConf(d, Tail(sorted))
         ELSE <<d>> \o sorted

RECURSIVE SortByConf(_)
SortByConf(ds) ==
    IF ds = <<>> THEN <<>>
    ELSE InsertByConf(ds[Len(ds)], SortByConf(SubSeq(ds, 1, Len(ds) - 1)))

\* steps 3-4: emit the best remaining detection, drop what overlaps it too much
RECURSIVE Greedy(_, _)
Greedy(rem, tiou) ==
    IF rem = <<>> THEN <<>>
    ELSE <<Head(rem)>> \o
         Greedy(SelectSeq(Tail(rem), LAMBDA d : ~IoUExceeds(Head(rem).box, d.box, tiou)),
                tiou)

suppress(ds, tiou, tconf) == Greedy(SortByConf(ConfFilter(ds, tconf)), tiou)

postprocess_nms(batch, iou_thres, conf_thres) ==
    [i \in 1..Len(batch) |-> suppress(batch[i], iou_thres, conf_thres)]

\* YoloPostprocessor.pre_nms_postprocess: the detections of every output tensor,
\* flattened into one detection axis per image
pre_nms_postprocess(outputs) ==
    [i \in 1..BatchSize |-> Concat([o \in 1..Len(outputs) |-> outputs[o][i]])]

---------------------------------------------------------------------------
(* YOLOPipeline.process_engine_outputs *)

\* kwargs.get(key, default)
Get(kwargs, key, default) == IF key \in DOMAIN kwargs THEN kwargs[key] ELSE default

\* a variant with the branch inverted
RunsPostprocessorInverted(p) == p = None

\* line 193: `if self.postprocessor`
RunsPostprocessor(p) == p # None

\* lines 213-218: the labels of one image, by direct lookup
LabelsOf(image_output, names) ==
    [j \in 1..Len(image_output) |-> names[Str(image_output[j].cls)]]

\* a lookup of lines 213-218 that raises KeyError
MissingKey(batch, names) ==
    \E i \in 1..Len(batch) : \E j \in 1..Len(batch[i]) :
        Str(batch[i][j].cls) \notin DOMAIN names

\* a variant handing each threshold to the other parameter
NmsArgsSwapped(kwargs) ==
    [iou_thres |-> Get(kwargs, "conf_thres", DefaultConfThres),
     conf_thres |-> Get(kwargs, "iou_thres", DefaultIouThres)]

\* lines 203-204: the thresholds handed to postprocess_nms
NmsArgs(kwargs) ==
    [iou_thres |-> Get(kwargs, "iou_thres", DefaultIouThres),
     conf_thres |-> Get(kwargs, "conf_thres", DefaultConfThres)]

\* the call's result; names_seen is the dict self.class_names returned during it
process_engine_outputs(engine_outputs, kwargs) ==
    LET ranPre == RunsPostprocessor(postprocessor)
        nms_input == IF ranPre THEN pre_nms_postprocess(engine_outputs)
                     ELSE engine_outputs[1]
        args == NmsArgs(kwargs)
        batch_output == postprocess_nms(nms_input, args.iou_thres, args.conf_thres)
        call == [op |-> "process_engine_outputs", engine_outputs |-> engine_outputs,
                 kwargs |-> kwargs, ranPre |-> ranPre, nms_input |-> nms_input,
                 nms_output |-> batch_output, names_seen |-> class_names]
    IN IF MissingKey(batch_output, class_names)
       THEN call @@ [status |-> "error", err |-> "KeyError", returned |-> FALSE,
                     output |-> None]
       ELSE call @@ [status |-> "ok", err |-> None, returned |-> TRUE,
                     output |->
                        [predictions |-> batch_output,
                         boxes |-> [i \in 1..Len(batch_output) |->
                                      [j \in 1..Len(batch_output[i]) |-> batch_output[i][j].box]],
                         scores |-> [i \in 1..Len(batch_output) |->
                                      [j \in 1..Len(batch_output[i]) |-> batch_output[i][j].conf]],
                         labels |-> [i \in 1..Len(batch_output) |->
                                      LabelsOf(batch_output[i], class_names)]]]

Boxes == {<<0, 0, 10, 10>>, <<1, 1, 11, 11>>}
ConfCls == {<<90, 0>>, <<45, 0>>, <<90, 7>>}
Detections == {[box |-> b, conf |-> cc[1], cls |-> cc[2]] : b \in Boxes, cc \in ConfCls}
ThreshValues == {90}
KwargsSet == UNION {[S -> ThreshValues] : S \in SUBSET {"iou_thres", "conf_thres"}}

\* a tensor the engine returns: one detection list per image of the batch
FirstTensors == [1..BatchSize -> SeqsUpTo(Detections, MaxDets)]
AuxDetection == [box |-> <<1, 1, 11, 11>>, conf |-> 90, cls |-> 0]
AuxTensors == [1..BatchSize -> {<<AuxDetection>>}]

\* the engine returns one tensor per declared output
EngineOutputs(n) ==
    {<<f>> \o a : f \in FirstTensors, a \in [1..(n - 1) -> AuxTensors]}

NoEngineRun == [ran |-> FALSE, outputs |-> <<>>, kwargs |-> NoDict]

\* the engine's forward pass for the request: one tensor per declared output
EngineForward ==
    /\ pc = "ready"
    /\ ~engine.ran
    /\ \E eo \in EngineOutputs(Len(onnx_model.outRanks)), kw \in KwargsSet :
          engine' = [ran |-> TRUE, outputs |-> eo, kwargs |-> kw]
    /\ UNCHANGED <<pc, onnx_model, float_cast, class_names_arg, callerDict, yoloFields, inputs, last,
                   onnx_input_names, nmsVars>>

ProcessEngineOutputs ==
    /\ pc = "ready"
    /\ engine.ran
    /\ last' = process_engine_outputs(engine.outputs, engine.kwargs)
    /\ UNCHANGED <<pc, onnx_model, float_cast, class_names_arg, callerDict, yoloFields, inputs, engine,
                   onnx_input_names, nmsVars>>

---------------------------------------------------------------------------
(* YOLOPipeline.process_inputs                                             *)
(*                                                                         *)
(* An image of the input is [kind, readable, ragged, shape, dtype, px]:    *)
(* a path (str), a nested list, or a numpy array the caller owns. px is a  *)
(* representative pixel [v, div], standing for the value v / 255^div.      *)
(* An array in flight is [shape, dtype, px, alias, contiguous]: alias is   *)
(* the index of the caller's array whose memory it shares, 0 for a fresh   *)
(* array.                                                                  *)

Pixel(v) == [v |-> v, div |-> 0]

\* numpy.asarray(list): a fresh array; a ragged list raises ValueError
\* cv2.imread + cv2.resize(dsize = input_shape): dsize is (width, height), the
\* result has shape (dsize[1], dsize[0], 3); imread of an unreadable path
\* returns None and cv2.resize(None) raises cv2.error
Decode(image, i, shape) ==
    IF image.kind = "list"
    THEN IF image.ragged
         THEN [ok |-> FALSE, err |-> "ValueError"]
         ELSE [ok |-> TRUE, err |-> None,
               array |-> [shape |-> image.shape, dtype |-> "int64", px |-> image.px,
                          alias |-> 0, contiguous |-> TRUE]]
    ELSE IF image.kind = "str"
    THEN IF ~image.readable
         THEN [ok |-> FALSE, err |-> "cv2.error"]
         ELSE [ok |-> TRUE, err |-> None,
               array |-> [shape |-> <<shape[2], shape[1], 3>>, dtype |-> "uint8",
                          px |-> image.px, alias |-> 0, contiguous |-> TRUE]]
    ELSE [ok |-> TRUE, err |-> None,
          array |-> [shape |-> image.shape, dtype |-> image.dtype, px |-> image.px,
                     alias |-> i, contiguous |-> TRUE]]

\* numpy.moveaxis(a, -1, k): the last axis moved to (0-based) position k; a view
MoveLastTo(shape, k) ==
    LET n == Len(shape) IN
    SubSeq(shape, 1, k) \o <<shape[n]>> \o SubSeq(shape, k + 1, n - 1)

\* a variant moving the channels of a batch to axis 0, as for a single image
make_channels_first_axis0(a) ==
    IF a.shape[Len(a.shape)] # 3 THEN a
    ELSE [a EXCEPT !.shape = MoveLastTo(a.shape, 0), !.contiguous = FALSE]

make_channels_first(a) ==
    LET is_single_image == Len(a.shape) = 3
        is_batch == Len(a.shape) = 4
    IN IF a.shape[Len(a.shape)] # 3 THEN a
       ELSE IF is_single_image
            THEN [a EXCEPT !.shape = MoveLastTo(a.shape, 0), !.contiguous = FALSE]
       ELSE IF is_batch
            THEN [a EXCEPT !.shape = MoveLastTo(a.shape, 1), !.contiguous = FALSE]
       ELSE a

IsFloat(dtype) == dtype \in {"float32", "float64"}

\* numpy's result type of a set of dtypes among uint8, int64, float32
Promote(dtypes) ==
    IF Cardinality(dtypes) = 1 THEN CHOOSE d \in dtypes : TRUE
    ELSE IF \E d \in dtypes : IsFloat(d)
         THEN IF "int64" \in dtypes THEN "float64" ELSE "float32"
    ELSE "int64"

\* numpy.stack(arrays, axis=0): all shapes must be equal, else ValueError
\* px of a batch: one representative pixel per stacked image
make_batch(image_batch) ==
    IF Len(image_batch) = 1 /\ Len(image_batch[1].shape) = 4
    THEN [ok |-> TRUE, err |-> None,
          array |-> [image_batch[1] EXCEPT !.px = <<image_batch[1].px>>]]
    ELSE IF \E i \in 1..Len(image_batch) : image_batch[i].shape # image_batch[1].shape
         THEN [ok |-> FALSE, err |-> "ValueError"]
         ELSE [ok |-> TRUE, err |-> None,
               array |-> [shape |-> <<Len(image_batch)>> \o image_batch[1].shape,
                          dtype |-> Promote({image_batch[i].dtype : i \in 1..Len(image_batch)}),
                          px |-> [i \in 1..Len(image_batch) |-> image_batch[i].px],
                          alias |-> 0, contiguous |-> TRUE]]

RECURSIVE Pow255(_)
Pow255(k) == IF k = 0 THEN 1 ELSE 255 * Pow255(k - 1)

\* the outcomes of converting an out-of-range float to int8; a build has one
FloatCasts == {"wrap", "saturate"}

\* two's complement wrap of an integer to the 8-bit signed range
WrapInt8(v) == ((v + 128) % 256) - 128

\* the value a cast to numpy.int8 stores. An integer wraps; a float is
\* truncated toward zero, and an out-of-range float is what the build makes of
\* it: ub is "wrap" or "saturate"
CastInt8(px, from, ub) ==
    LET t == px.v \div Pow255(px.div) IN
    IF IsFloat(from) /\ t > 127 /\ ub = "saturate"
    THEN [v |-> 127, div |-> 0]
    ELSE [v |-> WrapInt8(t), div |-> 0]

\* line 169: the dtype of the engine input
BatchDType(quantized) == IF quantized THEN "int8" ELSE "float32"

\* numpy.ascontiguousarray(a, dtype): a itself when it is contiguous and of that
\* dtype already, else a fresh converted copy
ascontiguousarray(a, dtype, ub) ==
    IF a.dtype = dtype /\ a.contiguous THEN a
    ELSE [shape |-> a.shape, dtype |-> dtype,
          px |-> [i \in 1..Len(a.px) |->
                    IF dtype = "int8" THEN CastInt8(a.px[i], a.dtype, ub) ELSE a.px[i]],
          alias |-> 0, contiguous |-> TRUE]

\* image_batch /= 255, in place
DivideBy255(a) ==
    [a EXCEPT !.px = [i \in 1..Len(a.px) |-> [a.px[i] EXCEPT !.div = @ + 1]]]

\* lines 152-164: the loop; the index of the first image that raises, or 0
FirstBad(imgs, shape) ==
    IF \E i \in 1..Len(imgs) : ~Decode(imgs[i], i, shape).ok
    THEN CHOOSE i \in 1..Len(imgs) :
            /\ ~Decode(imgs[i], i, shape).ok
            /\ \A j \in 1..(i - 1) : Decode(imgs[j], j, shape).ok
    ELSE 0

\* the call's result; `index` is the image index the raised error names
process_inputs(inp, ub) ==
    LET imgs == inp.images
        bad == FirstBad(imgs, input_shape)
        call == [op |-> "process_inputs", inputs |-> inp]
        image_batch == [i \in 1..Len(imgs) |->
                          make_channels_first(Decode(imgs[i], i, input_shape).array)]
        stacked == make_batch(image_batch)
        cast == ascontiguousarray(stacked.array, BatchDType(is_quantized), ub)
        final == IF ~is_quantized THEN DivideBy255(cast) ELSE cast
    IN IF bad # 0
       THEN call @@ [status |-> "error", err |-> Decode(imgs[bad], bad, input_shape).err,
                     index |-> None, returned |-> FALSE, batch |-> None, kwargs |-> None]
       ELSE IF ~stacked.ok
       THEN call @@ [status |-> "error", err |-> stacked.err, index |-> None,
                     returned |-> FALSE, batch |-> None, kwargs |-> None]
       ELSE call @@ [status |-> "ok", err |-> None, index |-> None, returned |-> TRUE,
                     batch |-> final,
                     kwargs |-> [iou_thres |-> inp.iou_thres,
                                 conf_thres |-> inp.conf_thres]]

\* the caller's images after the call: the in-place division reaches the
\* caller's array when the batch shares its memory
ImagesAfter(inp, res) ==
    IF res.status = "ok" /\ res.batch.alias # 0 /\ ~is_quantized
    THEN [inp EXCEPT !.images[res.batch.alias].px = res.batch.px[1]]
    ELSE inp

ProcessInputs ==
    /\ pc = "ready"
    /\ inputs.built
    /\ \A i \in 1..Len(inputs.images) : inputs.images[i].px.div < MaxDiv
    /\ LET res == process_inputs(inputs, float_cast) IN
       /\ last' = res
       /\ inputs' = ImagesAfter(inputs, res)
    /\ UNCHANGED <<pc, onnx_model, float_cast, class_names_arg, callerDict, yoloFields, engine,
                   onnx_input_names, nmsVars>>

DimSet == {2, 3}
Rank3Shapes == {s \in [1..3 -> DimSet] : s[2] = 2}
Rank4Shapes == {<<2>> \o s : s \in Rank3Shapes}
Shapes == Rank3Shapes \cup Rank4Shapes
PixelValues == {100, 200}
ArrayForms == {<<"list", "int64">>, <<"ndarray", "uint8">>, <<"ndarray", "float32">>}

PathImages ==
    {[kind |-> "str", readable |-> r, ragged |-> FALSE, shape |-> <<>>,
      dtype |-> "uint8", px |-> Pixel(200)] : r \in BOOLEAN}
RaggedList ==
    [kind |-> "list", readable |-> TRUE, ragged |-> TRUE, shape |-> <<>>,
     dtype |-> "int64", px |-> Pixel(200)]
ArrayImages ==
    {[kind |-> f[1], readable |-> TRUE, ragged |-> FALSE, shape |-> s,
      dtype |-> f[2], px |-> Pixel(v)] : f \in ArrayForms, s \in Shapes, v \in PixelValues}
Images == PathImages \cup {RaggedList} \cup ArrayImages

YOLOInputs ==
    {[built |-> TRUE, images |-> im, iou_thres |-> DefaultIouThres,
      conf_thres |-> DefaultConfThres] :
        im \in NonEmptySeqsUpTo(Images, MaxImages)}

\* the caller builds a new input object
CallerSetsInputs ==
    /\ pc = "ready"
    /\ ~inputs.built
    /\ \E inp \in YOLOInputs : inputs' = inp
    /\ UNCHANGED <<pc, onnx_model, float_cast, class_names_arg, callerDict, yoloFields, engine, last,
                   onnx_input_names, nmsVars>>

---------------------------------------------------------------------------
(* TransformersPipeline.setup_onnx_file_path and tokens_to_engine_input *)

\* lines 131-138: the input names overwrite_transformer_onnx_model_inputs returns
SetupOnnxFilePath ==
    /\ onnx_input_names.isNone
    /\ onnx_input_names' = [isNone |-> FALSE, names |-> onnx_model.inputNames]
    /\ UNCHANGED <<pc, onnx_model, float_cast, class_names_arg, callerDict, yoloFields, inputs, engine,
                   last, nmsVars>>

\* a variant that asks for any declared name, and returns those it finds
tokens_to_engine_input_any(tokens, input_names) ==
    LET call == [op |-> "tokens_to_engine_input", tokens |-> tokens,
                 input_names |-> input_names]
        names == input_names.names
        found == SelectSeq(names, LAMBDA n : n \in DOMAIN tokens)
    IN
    IF input_names.isNone
    THEN call @@ [status |-> "error", err |-> "TypeError", returned |-> FALSE,
                  value |-> None]
    ELSE IF names # <<>> /\ found = <<>>
    THEN call @@ [status |-> "error", err |-> "ValueError", returned |-> FALSE,
                  value |-> None]
    ELSE call @@ [status |-> "ok", err |-> None, returned |-> TRUE,
                  value |-> [i \in 1..Len(found) |-> tokens[found[i]]]]

tokens_to_engine_input(tokens, input_names) ==
    LET call == [op |-> "tokens_to_engine_input", tokens |-> tokens,
                 input_names |-> input_names]
        names == input_names.names
    IN
    IF input_names.isNone
    THEN call @@ [status |-> "error", err |-> "TypeError", returned |-> FALSE,
                  value |-> None]
    ELSE IF ~(\A i \in 1..Len(names) : names[i] \in DOMAIN tokens)
    THEN call @@ [status |-> "error", err |-> "ValueError", returned |-> FALSE,
                  value |-> None]
    ELSE call @@ [status |-> "ok", err |-> None, returned |-> TRUE,
                  value |-> [i \in 1..Len(names) |-> tokens[names[i]]]]

TokenKeys == {"input_ids", "attention_mask", "token_type_ids", "offset_mapping"}
TokenArrays == {"a", "b"}
TokenMaps == UNION {[S -> TokenArrays] : S \in SUBSET TokenKeys}

TokensToEngineInput ==
    /\ \E tokens \in TokenMaps : last' = tokens_to_engine_input(tokens, onnx_input_names)
    /\ UNCHANGED <<pc, onnx_model, float_cast, class_names_arg, callerDict, yoloFields, inputs, engine,
                   onnx_input_names, nmsVars>>

---------------------------------------------------------------------------
(* suppress applied repeatedly to one detection list *)

Suppress ==
    /\ passes < MaxPasses
    /\ dets' = suppress(dets, thr.iou, thr.conf)
    /\ nmsOnce' = (IF passes = 0 THEN dets' ELSE nmsOnce)
    /\ passes' = passes + 1
    /\ UNCHANGED <<pc, onnx_model, float_cast, class_names_arg, callerDict, yoloFields, inputs, engine,
                   last, onnx_input_names, nmsIn, thr>>

---------------------------------------------------------------------------
(* Initial states and specifications *)

RankSet == {3, 5}
InputDims == <<1, 3, 2, 2>>
WideInputDims == <<1, 3, 2, 3>>
InputNames == <<"input_ids", "attention_mask", "token_type_ids">>
DeclaredNames ==
    {s \in SeqsUpTo({InputNames[i] : i \in 1..Len(InputNames)}, MaxNames) :
        \A i, j \in 1..Len(s) : i # j => s[i] # s[j]}

InitialDict == [k \in {"0", "1"} |-> IF k = "0" THEN "person" ELSE "car"]
JsonDict == [k \in {"0"} |-> "dog"]
JsonList == <<"dog", "horse">>
ListArg == <<"ship">>

ClassNamesArg(kind, value, file) ==
    [kind |-> kind, value |-> value, file |-> file,
     names |-> IF kind = "list" THEN ListArg ELSE JsonList, content |-> JsonDict]

ClassNamesArgs ==
    {ClassNamesArg("str", "coco", None), ClassNamesArg("str", "imagenet", None),
     ClassNamesArg("dict", None, None), ClassNamesArg("list", None, None),
     ClassNamesArg("none", None, None)}
    \cup {ClassNamesArg("str", "labels.json", f) : f \in {"dict", "list", "missing"}}

SampleInput ==
    [built |-> TRUE,
     images |-> <<[kind |-> "str", readable |-> TRUE, ragged |-> FALSE, shape |-> <<>>,
                   dtype |-> "uint8", px |-> Pixel(200)]>>,
     iou_thres |-> DefaultIouThres, conf_thres |-> DefaultConfThres]

NoInput ==
    [built |-> FALSE, images |-> <<>>, iou_thres |-> DefaultIouThres,
     conf_thres |-> DefaultConfThres]

\* self.onnx_input_names = None
NoNames == [isNone |-> TRUE, names |-> <<>>]

InitFields ==
    /\ pc = "new"
    /\ callerDict = InitialDict
    /\ class_names_ref = "none"
    /\ ownDict = NoDict
    /\ resolved = NoDict
    /\ has_postprocessing = FALSE
    /\ flagAtInit = FALSE
    /\ is_quantized = FALSE
    /\ input_shape = <<>>
    /\ postprocessor = None
    /\ engine = NoEngineRun
    /\ last = NoCall
    /\ onnx_input_names = NoNames

InitHarness ==
    /\ dets = <<>>
    /\ nmsIn = <<>>
    /\ nmsOnce = <<>>
    /\ thr = [iou |-> DefaultIouThres, conf |-> DefaultConfThres]
    /\ passes = 0

\* the pipeline's life: construction, then calls in any order
Init ==
    /\ InitFields
    /\ InitHarness
    /\ inputs = SampleInput
    /\ float_cast = "wrap"
    /\ onnx_model \in [outRanks : NonEmptySeqsUpTo(RankSet, MaxOutputs),
                       elemType : {"FLOAT"}, inDims : {InputDims},
                       inputNames : {<<>>}]
    /\ class_names_arg \in ClassNamesArgs

Next ==
    \/ Construct
    \/ CallerMutatesMapping
    \/ ProcessInputs
    \/ EngineForward
    \/ ProcessEngineOutputs

Spec == Init /\ [][Next]_vars

\* preprocessing: every input the caller can build, for each input element type
InitInputs ==
    /\ InitFields
    /\ InitHarness
    /\ inputs = NoInput
    /\ float_cast \in FloatCasts
    /\ onnx_model \in [outRanks : {<<3>>}, elemType : {"FLOAT", "UINT8"},
                       inDims : {InputDims, WideInputDims}, inputNames : {<<>>}]
    /\ class_names_arg = ClassNamesArg("str", "coco", None)

NextInputs ==
    \/ Construct
    \/ CallerSetsInputs
    \/ ProcessInputs

SpecInputs == InitInputs /\ [][NextInputs]_vars

\* the transformers pipeline
InitTokens ==
    /\ InitFields
    /\ InitHarness
    /\ inputs = NoInput
    /\ float_cast = "wrap"
    /\ onnx_model \in [outRanks : {<<3>>}, elemType : {"FLOAT"}, inDims : {InputDims},
                       inputNames : DeclaredNames]
    /\ class_names_arg = ClassNamesArg("str", "coco", None)

NextTokens ==
    \/ SetupOnnxFilePath
    \/ TokensToEngineInput

SpecTokens == InitTokens /\ [][NextTokens]_vars

\* suppress on its own
NmsBoxes == {<<0, 0, 10, 10>>, <<3, 3, 13, 13>>, <<6, 6, 16, 16>>, <<5, 5, 5, 9>>}
NmsConfs == {45, 90}
NmsDetections == {[box |-> b, conf |-> c, cls |-> 0] : b \in NmsBoxes, c \in NmsConfs}
NmsIous == {5, 25, 50}

InitNms ==
    /\ InitFields
    /\ inputs = NoInput
    /\ float_cast = "wrap"
    /\ onnx_model = [outRanks |-> <<3>>, elemType |-> "FLOAT", inDims |-> InputDims,
                     inputNames |-> <<>>]
    /\ class_names_arg = ClassNamesArg("str", "coco", None)
    /\ dets \in SeqsUpTo(NmsDetections, MaxNmsDets)
    /\ nmsIn = dets
    /\ nmsOnce = <<>>
    /\ thr \in [iou : NmsIous, conf : NmsConfs]
    /\ passes = 0

NextNms == Suppress

SpecNms == InitNms /\ [][NextNms]_vars

---------------------------------------------------------------------------
(* Properties *)

IsCall(op) == last.op = op
Returned(op) == last.op = op /\ last.returned

\* the shape an image of the input has once decoded
DecodedShape(image, i) == Decode(image, i, input_shape).array.shape

\* the image carries 3 channels: on its last axis, or else already on its
\* channel axis (axis 0 of a single image, axis 1 of a batch)
HasThreeChannels(shape) ==
    \/ shape[Len(shape)] = 3
    \/ shape[Len(shape) - 2] = 3

\* C1 as stated: for every sequence of one or more images of rank 3 or 4, the
\* batch process_inputs returns has exactly 4 dimensions and its second
\* dimension, the channels, is of size 3.
C1_AnyImagesGiveNCHW ==
    Returned("process_inputs") =>
        /\ Len(last.batch.shape) = 4
        /\ last.batch.shape[2] = 3

\* C1, amended: when the input is exactly one image (rank 3 or 4) or several
\* images all of rank 3, and every image carries 3 channels on its last axis or
\* else already on its channel axis, the batch process_inputs returns has
\* exactly 4 dimensions and its second dimension is of size 3.
C1_WellFormedImagesGiveNCHW ==
    LET imgs == last.inputs.images IN
    (/\ Returned("process_inputs")
     /\ \/ Len(imgs) = 1
        \/ \A i \in 1..Len(imgs) : Len(DecodedShape(imgs[i], i)) = 3
     /\ \A i \in 1..Len(imgs) : HasThreeChannels(DecodedShape(imgs[i], i)))
    => /\ Len(last.batch.shape) = 4
       /\ last.batch.shape[2] = 3

\* C1: process_inputs returned the batch of one channels-last rank-4 array
\* (N, H, W, 3), its channels moved to the second axis
C1_Witness ==
    /\ Returned("process_inputs")
    /\ Len(last.inputs.images) = 1
    /\ last.inputs.images[1].kind = "ndarray"
    /\ last.inputs.images[1].shape = <<2, 2, 2, 3>>
    /\ last.batch.shape = <<2, 3, 2, 2>>

\* C2 as stated: the flag is true exactly when the model declares one output
\* or every output has rank >= the rank of the first.
C2_FlagIffRanksAtLeastFirst ==
    pc = "ready" =>
        (has_postprocessing <=>
            \/ Len(onnx_model.outRanks) = 1
            \/ \A i \in 1..Len(onnx_model.outRanks) :
                  onnx_model.outRanks[i] >= onnx_model.outRanks[1])

\* C2, amended: the flag is true exactly when the model declares one output or
\* no output after the first has a rank less than or equal to the first's.
C2_FlagIffLaterRanksGreater ==
    pc = "ready" =>
        (has_postprocessing <=>
            \/ Len(onnx_model.outRanks) = 1
            \/ ~\E i \in 2..Len(onnx_model.outRanks) :
                  onnx_model.outRanks[i] <= onnx_model.outRanks[1])

\* C2: a pipeline was built on a model with two outputs of equal rank, and its
\* flag is false
C2_Witness ==
    /\ pc = "ready"
    /\ Len(onnx_model.outRanks) = 2
    /\ onnx_model.outRanks[1] = onnx_model.outRanks[2]
    /\ ~has_postprocessing

\* the largest confidence among the detections ds (ds is not empty)
MaxConf(ds) == CHOOSE c \in {ds[j].conf : j \in 1..Len(ds)} :
                  \A j \in 1..Len(ds) : ds[j].conf <= c

\* the confidence threshold of the last process_engine_outputs call
ConfThresOfCall == Get(last.kwargs, "conf_thres", DefaultConfThres)

C4_SuppressIdempotent ==
    passes >= 2 => dets = nmsOnce

\* C4: suppress ran twice on three detections, all at or above the confidence
\* threshold, of which the first run dropped one for its overlap and kept two
\* of equal confidence
C4_Witness ==
    /\ passes = 2
    /\ Len(nmsIn) = 3
    /\ \A j \in 1..3 : nmsIn[j].conf >= thr.conf
    /\ Len(nmsOnce) = 2
    /\ nmsOnce[1].conf = nmsOnce[2].conf

RECURSIVE Prod(_)
Prod(shape) == IF shape = <<>> THEN 1 ELSE Head(shape) * Prod(Tail(shape))

\* an image reference process_inputs cannot use: an unreadable path, a ragged
\* list, or an array whose element count is not that of a 3 x H x W image
Malformed(image) ==
    \/ image.kind = "str" /\ ~image.readable
    \/ image.kind = "list" /\ image.ragged
    \/ /\ image.kind # "str"
       /\ ~image.ragged
       /\ Prod(SubSeq(image.shape, Len(image.shape) - 2, Len(image.shape)))
             # 3 * input_shape[1] * input_shape[2]

\* C5: when an image of the input is malformed, process_inputs raises an
\* InvalidInputError naming the index of the (first) offending image and
\* returns no batch.
C5_MalformedImageRaisesInvalidInput ==
    LET imgs == last.inputs.images IN
    (IsCall("process_inputs") /\ \E i \in 1..Len(imgs) : Malformed(imgs[i]))
    => /\ ~last.returned
       /\ last.err = "InvalidInputError"
       /\ last.index = Str((CHOOSE i \in 1..Len(imgs) :
                              /\ Malformed(imgs[i])
                              /\ \A j \in 1..(i - 1) : ~Malformed(imgs[j])) - 1)

\* C6: when a detection that survives NMS has a class id that is no key of the
\* class-name mapping, process_engine_outputs raises InvalidConfigurationError
\* and returns no output.
C6_UnknownClassRaisesInvalidConfiguration ==
    (IsCall("process_engine_outputs") /\ MissingKey(last.nms_output, last.names_seen))
    => /\ ~last.returned
       /\ last.err = "InvalidConfigurationError"

\* the pixel of the caller's input that element i of the batch px stands for
InputPixel(call, i) == call.inputs.images[i].px

\* C7: in a quantized pipeline the batch process_inputs returns is 8-bit
\* unsigned and holds every input pixel value v of 0..255 as v.
C7_QuantizedBatchKeepsPixels ==
    (Returned("process_inputs") /\ is_quantized)
    => /\ last.batch.dtype = "uint8"
       /\ \A i \in 1..Len(last.batch.px) :
             (InputPixel(last, i).div = 0 /\ InputPixel(last, i).v \in 0..255)
             => last.batch.px[i] = InputPixel(last, i)

\* C8: tokens_to_engine_input returns, when every declared input name is a key
\* of the tokens, exactly the arrays of the declared names in declared order;
\* when a declared name is missing it raises and returns nothing.
C8_TokensInDeclaredOrder ==
    (IsCall("tokens_to_engine_input") /\ ~last.input_names.isNone)
    => LET names == onnx_model.inputNames
           tokens == last.tokens
       IN IF \E i \in 1..Len(names) : names[i] \notin DOMAIN tokens
          THEN ~last.returned /\ last.status = "error"
          ELSE /\ last.returned
               /\ Len(last.value) = Len(names)
               /\ \A i \in 1..Len(names) : last.value[i] = tokens[names[i]]

\* C8: a call whose tokens held both declared names and a key that is not
\* declared returned two arrays
C8_Witness ==
    /\ IsCall("tokens_to_engine_input")
    /\ ~last.input_names.isNone
    /\ Len(onnx_model.inputNames) = 2
    /\ last.returned
    /\ "offset_mapping" \in DOMAIN last.tokens
    /\ last.tokens[onnx_model.inputNames[1]] # last.tokens[onnx_model.inputNames[2]]
    /\ Len(last.value) = 2

\* C9: every label process_engine_outputs returns for a class id is the label
\* the mapping resolved at construction gives that class id.
C9_LabelsAreThoseResolvedAtInit ==
    Returned("process_engine_outputs") =>
        \A i \in 1..Len(last.nms_output) : \A j \in 1..Len(last.nms_output[i]) :
            LET key == Str(last.nms_output[i][j].cls) IN
            /\ key \in DOMAIN resolved
            /\ last.output.labels[i][j] = resolved[key]

\* C10: the flag keeps the value computed at construction; a call of
\* process_engine_outputs runs the pre-NMS postprocessor exactly when the flag
\* is false, and when the flag is true hands the first engine output to NMS
\* unchanged.
C10_FlagFixedAndGatesPostprocessor ==
    pc = "ready" =>
        /\ has_postprocessing = flagAtInit
        /\ IsCall("process_engine_outputs") =>
              /\ last.ranPre <=> ~has_postprocessing
              /\ has_postprocessing => last.nms_input = last.engine_outputs[1]
              /\ ~has_postprocessing =>
                    last.nms_input = pre_nms_postprocess(last.engine_outputs)

\* C10: a pipeline whose model has two outputs and built-in postprocessing
\* handed the first of two different engine outputs to NMS
C10_Witness ==
    /\ IsCall("process_engine_outputs")
    /\ has_postprocessing
    /\ Len(last.engine_outputs) = 2
    /\ last.engine_outputs[1] # last.engine_outputs[2]
    /\ last.nms_input = last.engine_outputs[1]

\* C11: process_inputs leaves the caller's image tensors unchanged, so a second
\* process_inputs call on the same input object returns the batch the first
\* call returned; in particular for a non-quantized pipeline given one
\* 4-dimensional float32 tensor, which is used directly as the batch.
\* A process_inputs step is one taken once the caller holds its input object
\* and after which the most recent call is process_inputs.
C11_InputsUnchangedAndBatchesEqual ==
    [][(inputs.built /\ last'.op = "process_inputs")
          => /\ inputs' = inputs
             /\ (Returned("process_inputs") /\ last'.returned)
                   => last'.batch = last.batch]_vars

===========================================================================
